---- MODULE Spec2Model ----
(***************************************************************************)
(* Model of the streamlit-busyboard converters:                            *)
(*   apps/csv_to_json.py    _nest_flat_record, _records_from_df            *)
(*   pages/csv_to_json.py   _nest_flat_record (silent-merge variant)       *)
(*   apps/list_converter.py convert_list                                   *)
(*   apps/json_to_df.py     parse_json_to_df                               *)
(*   pages/json_to_df.py    parse_json_to_df (the copy without the guard)  *)
(*   streamlit_app.py       the pages, their callbacks and session state   *)
(*                                                                         *)
(* Python str values are sequences of one-character strings, so that       *)
(* split, strip, replace and join are computed and not assumed.            *)
(* A Python value is a tagged record:                                      *)
(*   [tag |-> "scalar", v |-> s]   a str/number cell                       *)
(*   [tag |-> "dict",   d |-> q]   a dict, q its (key, value) items        *)
(*   [tag |-> "list",   l |-> q]   a list, q a sequence of values          *)
(*   [tag |-> "nan"]               pandas' missing-cell marker             *)
(***************************************************************************)
EXTENDS Integers, Sequences, FiniteSets, TLC

VARIABLES
    flat,          \* _nest_flat_record: the flat dict, as its (key, value) items in order
    nest_pc,       \* "call" | "returned" | "raised" | "normalized" | "idle"
    nested,        \* _nest_flat_record: the dict it returns
    nested_pages,  \* pages/_nest_flat_record: the dict it returns
    reflat,        \* json_normalize of the returned dict: flat column -> cell
    text,          \* convert_list: its text argument
    remove_dupes,  \* convert_list: its remove_dupes argument
    quote,         \* convert_list: "none" | "single" | "double"
    wrapper,       \* convert_list: "none" | "paren" | "bracket" | "brace"
    items,         \* convert_list: items before quoting (line 22)
    quoted,        \* convert_list: items after quoting (line 29)
    joined,        \* convert_list: result before the wrapper (line 31)
    result,        \* convert_list: the returned str
    list_pc,       \* "call" | "returned_early" | "returned" | "idle"
    raw_text,      \* parse_json_to_df: its raw_text argument
    normalize,     \* parse_json_to_df: its normalize argument
    data,          \* parse_json_to_df: what json.loads returned, None before it
    df,            \* parse_json_to_df: the DataFrame returned
    json_error,    \* parse_json_to_df: the exception raised
    df_pages,      \* pages/parse_json_to_df: the DataFrame returned
    json_error_pages, \* pages/parse_json_to_df: the exception raised
    json_pc,       \* "call" | "returned" | "raised" | "idle"
    csv_df,        \* _records_from_df: its df argument
    observe_nested, \* _records_from_df: its observe_nested argument
    records,       \* _records_from_df: the list returned
    rec_pc,        \* "call" | "returned" | "raised" | "idle"
    reapplied,     \* [tag |-> "str", s |-> convert_list of its own result, same options], None before
    nav_page,      \* streamlit_app: the page st.navigation runs: "home" | "csv_to_json" | "json_to_df"
    session_state, \* st.session_state: the keys that are set and their values
    ui_pc,         \* "rerun": a script run is due | "waiting": for the user | "off"
    last_call,     \* the callback the last click or navigation ran and whether its conversion failed
    shown_before   \* the page the user was on when the last click or navigation happened

nestVars == <<flat, nest_pc, nested, nested_pages, reflat>>
listVars == <<text, remove_dupes, quote, wrapper, items, quoted, joined, result, list_pc, reapplied>>
jsonVars == <<raw_text, normalize, data, df, json_error, df_pages, json_error_pages, json_pc>>
recVars == <<csv_df, observe_nested, records, rec_pc>>
pageVars == <<nav_page, session_state, ui_pc, last_call, shown_before>>
vars == <<nestVars, listVars, jsonVars, recVars, pageVars>>

\* Python's None, also the value of a variable of a function that is not called
None == [tag |-> "none"]

ListIdle ==
    /\ text = None /\ remove_dupes = None /\ quote = None /\ wrapper = None
    /\ items = None /\ quoted = None /\ joined = None /\ result = None
    /\ reapplied = None
    /\ list_pc = "idle"

JsonIdle ==
    /\ raw_text = None /\ normalize = None /\ data = None /\ df = None
    /\ json_error = None /\ df_pages = None /\ json_error_pages = None
    /\ json_pc = "idle"

RecIdle ==
    /\ csv_df = None /\ observe_nested = None /\ records = None
    /\ rec_pc = "idle"

NestIdle ==
    /\ flat = None /\ nested = None /\ nested_pages = None /\ reflat = None
    /\ nest_pc = "idle"

PageIdle ==
    /\ nav_page = None /\ session_state = None
    /\ last_call = None /\ shown_before = None
    /\ ui_pc = "off"

(***************************************************************************)
(* Bounds of the model.                                                    *)
(***************************************************************************)
MaxKeys == 2       \* keys of one flat record
MaxDepth == 3      \* dot-separated segments of one key
MaxTextLen == 5    \* characters of a text over TokenChars
MaxShortLen == 3   \* characters of a text over AllChars
MaxArr == 2        \* elements of a JSON array
MaxBlank == 2      \* characters of a whitespace-only JSON text
MaxRows == 2       \* data rows of a CSV grid

Segs == {"a", "b"}            \* characters a key segment is made of
Scalars == {"x", "y"}         \* cell values of a flat record

(***************************************************************************)
(* Python values.  A dict is the sequence of its (key, value) items in     *)
(* insertion order, keys distinct.                                         *)
(***************************************************************************)
Scalar(s) == [tag |-> "scalar", v |-> s]
Dict(kvs) == [tag |-> "dict", d |-> kvs]
List(l) == [tag |-> "list", l |-> l]
NaN == [tag |-> "nan"]
IsDict(x) == x.tag = "dict"
IsList(x) == x.tag = "list"
EmptyDict == <<>>
DictKeys(cur) == { cur[i][1] : i \in 1..Len(cur) }
\* p in cur
DictHas(cur, p) == \E i \in 1..Len(cur) : cur[i][1] = p
\* cur[p]
DictGet(cur, p) == cur[CHOOSE i \in 1..Len(cur) : cur[i][1] = p][2]
\* cur[p] = v: an existing key keeps its place, a new key goes last
DictSet(cur, p, v) ==
    IF DictHas(cur, p)
    THEN [i \in 1..Len(cur) |-> IF cur[i][1] = p THEN <<p, v>> ELSE cur[i]]
    ELSE Append(cur, <<p, v>>)
\* dict equality ignores the order of the items (values here are leaves)
AsFunction(cur) == [k \in DictKeys(cur) |-> DictGet(cur, k)]

SeqsUpTo(S, n) == UNION {[1..m -> S] : m \in 0..n}

(***************************************************************************)
(* str operations.                                                         *)
(***************************************************************************)
\* "." in key
HasDot(key) == \E i \in 1..Len(key) : key[i] = "."

\* key.split(".")
RECURSIVE StrSplit(_)
StrSplit(key) ==
    IF ~HasDot(key) THEN <<key>>
    ELSE LET i == CHOOSE j \in 1..Len(key) :
                    key[j] = "." /\ \A h \in 1..(j - 1) : key[h] # "."
         IN <<SubSeq(key, 1, i - 1)>> \o StrSplit(SubSeq(key, i + 1, Len(key)))

\* ".".join(parts)
RECURSIVE DotJoin(_)
DotJoin(parts) ==
    IF Len(parts) = 0 THEN <<>>
    ELSE IF Len(parts) = 1 THEN parts[1]
    ELSE parts[1] \o <<".">> \o DotJoin(Tail(parts))

(***************************************************************************)
(* apps/csv_to_json.py _nest_flat_record                                   *)
(***************************************************************************)
\* The walk of one dotted key: for p in parts[:-1] ... cur[parts[-1]] = value.
\* cur is mutated in place; here the updated cur is returned.
RECURSIVE NestAssignAlwaysFresh(_, _, _)
NestAssignAlwaysFresh(cur, parts, value) ==
    IF Len(parts) = 1 THEN DictSet(cur, parts[1], value)
    ELSE LET p == parts[1]
         IN DictSet(cur, p, Dict(NestAssignAlwaysFresh(EmptyDict, Tail(parts), value)))

RECURSIVE NestAssign(_, _, _)
NestAssign(cur, parts, value) ==
    IF Len(parts) = 1 THEN DictSet(cur, parts[1], value)
    ELSE LET p == parts[1]
             sub == IF ~DictHas(cur, p) \/ ~IsDict(DictGet(cur, p))
                    THEN EmptyDict
                    ELSE DictGet(cur, p).d
         IN DictSet(cur, p, Dict(NestAssign(sub, Tail(parts), value)))

\* The for loop over flat.items() from item i on; the result is
\* [raised |-> FALSE, nested |-> dict] or [raised |-> TRUE, key |-> key].
RECURSIVE NestLoop(_, _, _)
NestLoop(kvs, i, acc) ==
    IF i > Len(kvs) THEN [raised |-> FALSE, nested |-> acc]
    ELSE LET key == kvs[i][1]
             value == kvs[i][2]
         IN IF HasDot(key)
            THEN NestLoop(kvs, i + 1, NestAssign(acc, StrSplit(key), value))
            ELSE IF DictHas(acc, key) /\ IsDict(DictGet(acc, key))
                 THEN [raised |-> TRUE, key |-> key]
                 ELSE NestLoop(kvs, i + 1, DictSet(acc, key, value))

_nest_flat_record(kvs) == NestLoop(kvs, 1, EmptyDict)

(***************************************************************************)
(* pages/csv_to_json.py _nest_flat_record: a plain key that meets a nested *)
(* object is stored inside it under "value"; it never raises.              *)
(***************************************************************************)
ValueKey == <<"v", "a", "l", "u", "e">>

RECURSIVE NestLoopPages(_, _, _)
NestLoopPages(kvs, i, acc) ==
    IF i > Len(kvs) THEN [raised |-> FALSE, nested |-> acc]
    ELSE LET key == kvs[i][1]
             value == kvs[i][2]
         IN IF HasDot(key)
            THEN NestLoopPages(kvs, i + 1, NestAssign(acc, StrSplit(key), value))
            ELSE IF DictHas(acc, key) /\ IsDict(DictGet(acc, key))
                 THEN NestLoopPages(kvs, i + 1,
                        DictSet(acc, key, Dict(DictSet(DictGet(acc, key).d, ValueKey, value))))
                 ELSE NestLoopPages(kvs, i + 1, DictSet(acc, key, value))

_nest_flat_record_pages(kvs) == NestLoopPages(kvs, 1, EmptyDict)

(***************************************************************************)
(* pandas.json_normalize, as the pages call it (no record_path, no meta):  *)
(* every record goes through _normalise_json_ordered, which keeps the      *)
(* top-level non-dict values, then writes every leaf of the nested dicts   *)
(* under its path joined with ".", a later write to the same column        *)
(* replacing the earlier one.  A list is a leaf.                           *)
(***************************************************************************)
\* new_key = f"{key_string}{separator}{key}", the separator dropped at the top
NewKey(key_string, key) ==
    IF key_string = <<>> THEN key ELSE key_string \o <<".">> \o key

\* _normalise_json(data, key_string, normalized_dict, ".")
RECURSIVE NormaliseJson(_, _, _)
RECURSIVE NormaliseItems(_, _, _, _)
NormaliseJson(x, key_string, normalized_dict) ==
    IF IsDict(x)
    THEN NormaliseItems(x.d, 1, key_string, normalized_dict)
    ELSE DictSet(normalized_dict, key_string, x)
NormaliseItems(kvs, i, key_string, normalized_dict) ==
    IF i > Len(kvs) THEN normalized_dict
    ELSE NormaliseItems(kvs, i + 1, key_string,
            NormaliseJson(kvs[i][2], NewKey(key_string, kvs[i][1]), normalized_dict))

\* {**a, **b}
RECURSIVE DictUpdate(_, _)
DictUpdate(a, b) ==
    IF Len(b) = 0 THEN a ELSE DictUpdate(DictSet(a, b[1][1], b[1][2]), Tail(b))

\* _normalise_json_ordered(data, "."): one flattened record
NormaliseJsonOrdered(kvs) ==
    LET top_dict == SelectSeq(kvs, LAMBDA kv : ~IsDict(kv[2]))
        nested_dict == NormaliseJson(Dict(SelectSeq(kvs, LAMBDA kv : IsDict(kv[2]))),
                                     <<>>, EmptyDict)
    IN DictUpdate(top_dict, nested_dict)

(***************************************************************************)
(* apps/list_converter.py convert_list                                     *)
(***************************************************************************)
\* the character class [,\t\r\n] of the split pattern
IsSplitChar(c) == c \in {",", "\t", "\r", "\n"}
\* what str.strip() removes
IsSpace(c) == c \in {" ", "\t", "\n", "\r"}

\* re.split(r'[,\t\r\n]+', text): the pieces between the maximal runs of
\* split characters; a run at either end leaves an empty piece there
RECURSIVE ReSplit(_)
ReSplit(s) ==
    IF \A i \in 1..Len(s) : ~IsSplitChar(s[i]) THEN <<s>>
    ELSE LET i == CHOOSE j \in 1..Len(s) :
                    IsSplitChar(s[j]) /\ \A h \in 1..(j - 1) : ~IsSplitChar(s[h])
             e == CHOOSE j \in i..Len(s) :
                    /\ \A h \in i..j : IsSplitChar(s[h])
                    /\ (j = Len(s) \/ ~IsSplitChar(s[j + 1]))
         IN <<SubSeq(s, 1, i - 1)>> \o ReSplit(SubSeq(s, e + 1, Len(s)))

\* t.strip()
RECURSIVE LStrip(_)
LStrip(t) == IF Len(t) > 0 /\ IsSpace(t[1]) THEN LStrip(Tail(t)) ELSE t
RECURSIVE RStrip(_)
RStrip(t) ==
    IF Len(t) > 0 /\ IsSpace(t[Len(t)]) THEN RStrip(SubSeq(t, 1, Len(t) - 1)) ELSE t
\* a strip that keeps the blanks
StripNothing(t) == t
Strip(t) == RStrip(LStrip(t))

\* [t.strip() for t in tokens if t.strip()]
RECURSIVE StripItems(_)
StripItems(tokens) ==
    IF Len(tokens) = 0 THEN <<>>
    ELSE IF Strip(tokens[1]) # <<>>
         THEN <<Strip(tokens[1])>> \o StripItems(Tail(tokens))
         ELSE StripItems(Tail(tokens))

\* the loop of lines 16-22: seen is the set, uniq the list
RECURSIVE UniqLoop(_, _, _)
UniqLoop(its, seen, uniq) ==
    IF Len(its) = 0 THEN uniq
    ELSE IF its[1] \notin seen
         THEN UniqLoop(Tail(its), seen \cup {its[1]}, Append(uniq, its[1]))
         ELSE UniqLoop(Tail(its), seen, uniq)

\* a loop that keeps the last occurrence of each item instead of the first
RECURSIVE UniqKeepLast(_)
UniqKeepLast(its) ==
    IF Len(its) = 0 THEN <<>>
    ELSE IF \E h \in 2..Len(its) : its[h] = its[1]
         THEN UniqKeepLast(Tail(its))
         ELSE <<its[1]>> \o UniqKeepLast(Tail(its))

RemoveDupes(its) == UniqLoop(its, {}, <<>>)

\* it.replace(old, new), old one character
RECURSIVE StrReplace(_, _, _)
StrReplace(it, old, new) ==
    IF Len(it) = 0 THEN <<>>
    ELSE (IF it[1] = old THEN new ELSE <<it[1]>>) \o StrReplace(Tail(it), old, new)

\* the quoting of one item (lines 25-29)
QuoteItemNoEscape(it, q) ==
    IF q = "single" THEN <<"'">> \o it \o <<"'">>
    ELSE IF q = "double" THEN <<"\"">> \o it \o <<"\"">>
    ELSE it
QuoteItem(it, q) ==
    IF q = "single" THEN <<"'">> \o StrReplace(it, "'", <<"'", "'">>) \o <<"'">>
    ELSE IF q = "double" THEN <<"\"">> \o StrReplace(it, "\"", <<"\\", "\"">>) \o <<"\"">>
    ELSE it

\* ', '.join(items)
RECURSIVE CommaJoin(_)
CommaJoin(its) ==
    IF Len(its) = 0 THEN <<>>
    ELSE IF Len(its) = 1 THEN its[1]
    ELSE its[1] \o <<",", " ">> \o CommaJoin(Tail(its))

\* lines 34-39
WrapNever(r, w) == r
Wrap(r, w) ==
    IF w = "paren" THEN <<"(">> \o r \o <<")">>
    ELSE IF w = "bracket" THEN <<"[">> \o r \o <<"]">>
    ELSE IF w = "brace" THEN <<"{">> \o r \o <<"}">>
    ELSE r

\* lines 10-22
ListItems(t, dupes) ==
    LET its == StripItems(ReSplit(t))
    IN IF dupes THEN RemoveDupes(its) ELSE its

\* lines 24-29
QuoteItems(its, q) == [i \in 1..Len(its) |-> QuoteItem(its[i], q)]

convert_list(t, dupes, q, w) ==
    IF t = <<>> THEN <<>>
    ELSE Wrap(CommaJoin(QuoteItems(ListItems(t, dupes), q)), w)

(***************************************************************************)
(* Inputs of convert_list: every text of up to MaxTextLen characters over  *)
(* TokenChars and every text of up to MaxShortLen characters over AllChars.*)
(***************************************************************************)
TokenChars == {"a", "b", ",", " "}
AllChars == {"a", ",", "\t", "\r", "\n", " ", "'", "\""}
Texts == SeqsUpTo(TokenChars, MaxTextLen) \cup SeqsUpTo(AllChars, MaxShortLen)
QuoteModes == {"none", "single", "double"}
WrapModes == {"none", "paren", "bracket", "brace"}

InitList ==
    /\ text \in Texts
    /\ remove_dupes \in BOOLEAN
    /\ quote \in QuoteModes
    /\ wrapper \in WrapModes
    /\ items = None /\ quoted = None /\ joined = None /\ result = None
    /\ reapplied = None
    /\ list_pc = "call"
    /\ NestIdle /\ JsonIdle /\ RecIdle /\ PageIdle

\* line 7-8: if not text: return ""
ConvertListEmpty ==
    /\ list_pc = "call"
    /\ text = <<>>
    /\ result' = convert_list(text, remove_dupes, quote, wrapper)
    /\ list_pc' = "returned_early"
    /\ UNCHANGED <<text, remove_dupes, quote, wrapper, items, quoted, joined, reapplied, nestVars, jsonVars, recVars, pageVars>>

\* lines 10-41
ConvertList ==
    /\ list_pc = "call"
    /\ text # <<>>
    /\ items' = ListItems(text, remove_dupes)
    /\ quoted' = QuoteItems(items', quote)
    /\ joined' = CommaJoin(quoted')
    /\ result' = convert_list(text, remove_dupes, quote, wrapper)
    /\ list_pc' = "returned"
    /\ UNCHANGED <<text, remove_dupes, quote, wrapper, reapplied, nestVars, jsonVars, recVars, pageVars>>

\* lines 74-81: the user converts the converted list again, same options
ConvertListAgain ==
    /\ list_pc \in {"returned", "returned_early"}
    /\ reapplied = None
    /\ reapplied' = [tag |-> "str", s |-> convert_list(result, remove_dupes, quote, wrapper)]
    /\ UNCHANGED <<text, remove_dupes, quote, wrapper, items, quoted, joined, result,
                   list_pc, nestVars, jsonVars, recVars, pageVars>>

(***************************************************************************)
(* json.loads, for the JSON made of objects, arrays, strings without       *)
(* escapes and unsigned integers.  A parse step returns                    *)
(* [ok |-> TRUE, val |-> value, pos |-> next index] or [ok |-> FALSE].     *)
(***************************************************************************)
Str(chars) == [tag |-> "str", s |-> chars]
Digits == {"0", "1", "2", "3", "4", "5", "6", "7", "8", "9"}
JsonWs == {" ", "\t", "\n", "\r"}
Fail == [ok |-> FALSE]
Ok(v, i) == [ok |-> TRUE, val |-> v, pos |-> i]

RECURSIVE SkipWs(_, _)
SkipWs(s, i) == IF i <= Len(s) /\ s[i] \in JsonWs THEN SkipWs(s, i + 1) ELSE i

\* s[i] is the opening quote
ParseString(s, i) ==
    LET ends == { j \in (i + 1)..Len(s) : s[j] = "\"" }
    IN IF ends = {} THEN Fail
       ELSE LET j == CHOOSE e \in ends : \A f \in ends : e <= f
            IN IF \E h \in (i + 1)..(j - 1) : s[h] = "\\" THEN Fail
               ELSE Ok(SubSeq(s, i + 1, j - 1), j + 1)

\* s[i] is a digit
ParseNumber(s, i) ==
    LET j == CHOOSE e \in i..Len(s) :
                /\ \A h \in i..e : s[h] \in Digits
                /\ (e = Len(s) \/ s[e + 1] \notin Digits)
    IN IF j > i /\ s[i] = "0" THEN Fail ELSE Ok(Scalar(SubSeq(s, i, j)), j + 1)

RECURSIVE ParseValue(_, _)
RECURSIVE ParseMembers(_, _, _)
RECURSIVE ParseElements(_, _, _)
ParseValue(s, i0) ==
    LET i == SkipWs(s, i0)
    IN IF i > Len(s) THEN Fail
       ELSE IF s[i] = "{"
            THEN LET j == SkipWs(s, i + 1)
                 IN IF j <= Len(s) /\ s[j] = "}" THEN Ok(Dict(EmptyDict), j + 1)
                    ELSE ParseMembers(s, j, EmptyDict)
       ELSE IF s[i] = "["
            THEN LET j == SkipWs(s, i + 1)
                 IN IF j <= Len(s) /\ s[j] = "]" THEN Ok(List(<<>>), j + 1)
                    ELSE ParseElements(s, j, <<>>)
       ELSE IF s[i] = "\""
            THEN LET r == ParseString(s, i)
                 IN IF r.ok THEN Ok(Str(r.val), r.pos) ELSE Fail
       ELSE IF s[i] \in Digits THEN ParseNumber(s, i)
       ELSE Fail

\* the members of an object from index i on; a repeated key keeps its first
\* place and takes the later value, as dict() does
ParseMembers(s, i, acc) ==
    IF i > Len(s) \/ s[i] # "\"" THEN Fail
    ELSE LET k == ParseString(s, i)
         IN IF ~k.ok THEN Fail
            ELSE LET c == SkipWs(s, k.pos)
                 IN IF c > Len(s) \/ s[c] # ":" THEN Fail
                    ELSE LET v == ParseValue(s, c + 1)
                         IN IF ~v.ok THEN Fail
                            ELSE LET e == SkipWs(s, v.pos)
                                     acc2 == DictSet(acc, k.val, v.val)
                                 IN IF e > Len(s) THEN Fail
                                    ELSE IF s[e] = "}" THEN Ok(Dict(acc2), e + 1)
                                    ELSE IF s[e] = ","
                                         THEN ParseMembers(s, SkipWs(s, e + 1), acc2)
                                    ELSE Fail

ParseElements(s, i, acc) ==
    LET v == ParseValue(s, i)
    IN IF ~v.ok THEN Fail
       ELSE LET e == SkipWs(s, v.pos)
                acc2 == Append(acc, v.val)
            IN IF e > Len(s) THEN Fail
               ELSE IF s[e] = "]" THEN Ok(List(acc2), e + 1)
               ELSE IF s[e] = "," THEN ParseElements(s, e + 1, acc2)
               ELSE Fail

\* json.loads(s): one value, nothing but whitespace after it
JsonLoads(s) ==
    LET v == ParseValue(s, 1)
    IN IF v.ok /\ SkipWs(s, v.pos) = Len(s) + 1 THEN v ELSE Fail

(***************************************************************************)
(* pandas.DataFrame and pandas.json_normalize, for the data the pages pass *)
(* them.  A DataFrame is [tag |-> "df", columns |-> names, rows |-> rows], *)
(* a row the sequence of its cells in column order.  A constructor returns *)
(* [raised |-> FALSE, df |-> frame] or [raised |-> TRUE, error |-> name].  *)
(***************************************************************************)
Frame(columns, rows) == [tag |-> "df", columns |-> columns, rows |-> rows]
Returned(frame) == [raised |-> FALSE, df |-> frame]
Raised(e) == [raised |-> TRUE, error |-> e]

\* the keys of the records in first-seen order
RECURSIVE UnionKeys(_, _)
UnionKeys(recs, acc) ==
    IF Len(recs) = 0 THEN acc
    ELSE UnionKeys(Tail(recs),
            acc \o SelectSeq([i \in 1..Len(recs[1]) |-> recs[1][i][1]],
                             LAMBDA k : \A j \in 1..Len(acc) : acc[j] # k))

\* DataFrame(list of dicts): one row per dict, a missing key gives NaN
FrameOfRecords(recs) ==
    LET columns == UnionKeys(recs, <<>>)
    IN Frame(columns,
             [r \in 1..Len(recs) |->
                [c \in 1..Len(columns) |->
                    IF DictHas(recs[r], columns[c])
                    THEN DictGet(recs[r], columns[c]) ELSE NaN]])

\* DataFrame(dict of lists): one column per key, one row per list position
FrameOfColumns(kvs) ==
    IF \E i, j \in 1..Len(kvs) : Len(kvs[i][2].l) # Len(kvs[j][2].l)
    THEN Raised("ValueError: All arrays must be of the same length")
    ELSE Returned(Frame([c \in 1..Len(kvs) |-> kvs[c][1]],
                        [r \in 1..(IF Len(kvs) = 0 THEN 0 ELSE Len(kvs[1][2].l)) |->
                            [c \in 1..Len(kvs) |-> kvs[c][2].l[r]]]))

IsRecordList(x) == IsList(x) /\ \A i \in 1..Len(x.l) : IsDict(x.l[i])
AllLists(kvs) == \A i \in 1..Len(kvs) : IsList(kvs[i][2])

\* pd.DataFrame(data)
DataFrame(x) ==
    IF IsDict(x) /\ AllLists(x.d) THEN FrameOfColumns(x.d)
    ELSE IF IsRecordList(x) THEN Returned(FrameOfRecords([i \in 1..Len(x.l) |-> x.l[i].d]))
    ELSE Raised("ValueError: DataFrame constructor not properly called!")

\* pd.json_normalize(data): a dict is one record, whatever its values
JsonNormalize(x) ==
    IF IsDict(x) THEN Returned(FrameOfRecords(<<NormaliseJsonOrdered(x.d)>>))
    ELSE IF IsRecordList(x)
         THEN Returned(FrameOfRecords([i \in 1..Len(x.l) |-> NormaliseJsonOrdered(x.l[i].d)]))
    ELSE Raised("NotImplementedError")

(***************************************************************************)
(* apps/json_to_df.py parse_json_to_df                                     *)
(***************************************************************************)
\* lines 46-52, data being the decoded value or the one-record list
FrameOfData(x, norm) ==
    IF norm THEN JsonNormalize(x)
    ELSE LET direct == DataFrame(x)
         IN IF direct.raised THEN JsonNormalize(x) ELSE direct

\* lines 39-52; the first variant never normalizes a single record
FrameOfDecodedNeverNormalizes(x, norm) ==
    IF IsDict(x)
    THEN IF x.d # EmptyDict /\ AllLists(x.d)
         THEN IF norm THEN JsonNormalize(x) ELSE DataFrame(x)
         ELSE FrameOfData(List(<<x>>), FALSE)
    ELSE FrameOfData(x, norm)
FrameOfDecoded(x, norm) ==
    IF IsDict(x)
    THEN IF x.d # EmptyDict /\ AllLists(x.d)
         THEN IF norm THEN JsonNormalize(x) ELSE DataFrame(x)
         ELSE FrameOfData(List(<<x>>), norm)
    ELSE FrameOfData(x, norm)

\* the pages copy with the guard of the apps copy
FrameOfDecodedPagesGuarded(x, norm) == FrameOfDecoded(x, norm)

\* pages/json_to_df.py lines 51-64: the empty dict counts as columnar
FrameOfDecodedPages(x, norm) ==
    IF IsDict(x)
    THEN IF AllLists(x.d)
         THEN IF norm THEN JsonNormalize(x) ELSE DataFrame(x)
         ELSE FrameOfData(List(<<x>>), norm)
    ELSE FrameOfData(x, norm)

\* lines 33-37: [empty |-> TRUE], or the outcome of json.loads on the stripped text
DecodeAnyway(raw) == [empty |-> FALSE, loaded |-> JsonLoads(Strip(raw))]
Decode(raw) ==
    IF Strip(raw) = <<>> THEN [empty |-> TRUE]
    ELSE [empty |-> FALSE, loaded |-> JsonLoads(Strip(raw))]

parse_json_to_df(raw, norm) ==
    LET dec == Decode(raw)
    IN IF dec.empty THEN Raised("ValueError: No JSON provided")
       ELSE IF ~dec.loaded.ok THEN Raised("JSONDecodeError")
       ELSE FrameOfDecoded(dec.loaded.val, norm)

parse_json_to_df_pages(raw, norm) ==
    LET dec == Decode(raw)
    IN IF dec.empty THEN Raised("ValueError: No JSON provided")
       ELSE IF ~dec.loaded.ok THEN Raised("JSONDecodeError")
       ELSE FrameOfDecodedPages(dec.loaded.val, norm)

(***************************************************************************)
(* Inputs of parse_json_to_df: the text of every object over one of the    *)
(* key families, its values numbers, arrays of numbers or objects of       *)
(* numbers, and of every array of objects of numbers, with or without      *)
(* blanks around it; whitespace-only texts; a few texts that are no JSON;  *)
(* a bare number.                                                          *)
(***************************************************************************)
Numbers == {Scalar(<<"1">>), Scalar(<<"2">>)}
KeyFamilies == { {<<"a">>, <<"b">>}, {<<"a">>, <<"a", ".", "a">>} }

\* the dicts with distinct keys from K and values from V
DictsOver(K, V) ==
    { kvs \in SeqsUpTo(K \X V, Cardinality(K)) :
        \A i, j \in 1..Len(kvs) : i # j => kvs[i][1] # kvs[j][1] }

NumberLists == { List(l) : l \in SeqsUpTo(Numbers, MaxArr) }
InnerObjects(K) == { Dict(kvs) : kvs \in DictsOver(K, Numbers) }
Objects(K) == { Dict(kvs) : kvs \in DictsOver(K, Numbers \cup NumberLists \cup InnerObjects(K)) }
RecordLists(K) == { List(l) : l \in SeqsUpTo(InnerObjects(K), MaxArr) }
JsonValues == UNION { Objects(K) \cup RecordLists(K) : K \in KeyFamilies }

\* the compact text of a value
RECURSIVE JsonDumps(_)
RECURSIVE DumpMembers(_)
RECURSIVE DumpElements(_)
JsonDumps(x) ==
    IF IsDict(x) THEN <<"{">> \o DumpMembers(x.d) \o <<"}">>
    ELSE IF IsList(x) THEN <<"[">> \o DumpElements(x.l) \o <<"]">>
    ELSE x.v
DumpMembers(kvs) ==
    IF Len(kvs) = 0 THEN <<>>
    ELSE <<"\"">> \o kvs[1][1] \o <<"\"", ":">> \o JsonDumps(kvs[1][2])
         \o (IF Len(kvs) = 1 THEN <<>> ELSE <<",">> \o DumpMembers(Tail(kvs)))
DumpElements(l) ==
    IF Len(l) = 0 THEN <<>>
    ELSE JsonDumps(l[1]) \o (IF Len(l) = 1 THEN <<>> ELSE <<",">> \o DumpElements(Tail(l)))

BlankTexts == SeqsUpTo({" ", "\n", "\t"}, MaxBlank)
NotJsonTexts == { <<"{">>, <<"[", "1", ",">>, <<"{", "\"", "a", "\"", "}">>,
                  <<"{", "}", "}">>, <<"a">> }
JsonTexts ==
    { pad[1] \o JsonDumps(x) \o pad[2] :
        pad \in {<<<<>>, <<>>>>, <<<<" ">>, <<"\n">>>>}, x \in JsonValues }
    \cup BlankTexts \cup NotJsonTexts \cup {<<"1">>}

InitJson ==
    /\ raw_text \in JsonTexts
    /\ normalize \in BOOLEAN
    /\ data = None /\ df = None /\ json_error = None
    /\ df_pages = None /\ json_error_pages = None
    /\ json_pc = "call"
    /\ NestIdle /\ ListIdle /\ RecIdle /\ PageIdle

\* what the pages copy does with the same arguments
PagesOutcome ==
    LET out == parse_json_to_df_pages(raw_text, normalize)
    IN /\ df_pages' = IF out.raised THEN None ELSE out.df
       /\ json_error_pages' = IF out.raised THEN out.error ELSE None

\* lines 33-35: raise ValueError("No JSON provided"), json.loads not reached
ParseRaiseEmpty ==
    /\ json_pc = "call"
    /\ Decode(raw_text).empty
    /\ json_error' = parse_json_to_df(raw_text, normalize).error
    /\ json_pc' = "raised"
    /\ PagesOutcome
    /\ UNCHANGED <<raw_text, normalize, data, df, nestVars, listVars, recVars, pageVars>>

\* line 37: json.loads raises
ParseRaiseDecode ==
    LET dec == Decode(raw_text)
    IN /\ json_pc = "call"
       /\ ~dec.empty
       /\ ~dec.loaded.ok
       /\ json_error' = parse_json_to_df(raw_text, normalize).error
       /\ json_pc' = "raised"
       /\ PagesOutcome
       /\ UNCHANGED <<raw_text, normalize, data, df, nestVars, listVars, recVars, pageVars>>

\* lines 37-52 with pandas raising
ParseRaiseFrame ==
    LET dec == Decode(raw_text)
        out == parse_json_to_df(raw_text, normalize)
    IN /\ json_pc = "call"
       /\ ~dec.empty
       /\ dec.loaded.ok
       /\ out.raised
       /\ data' = dec.loaded.val
       /\ json_error' = out.error
       /\ json_pc' = "raised"
       /\ PagesOutcome
       /\ UNCHANGED <<raw_text, normalize, df, nestVars, listVars, recVars, pageVars>>

\* lines 37-52 returning a DataFrame
ParseReturn ==
    LET dec == Decode(raw_text)
        out == parse_json_to_df(raw_text, normalize)
    IN /\ json_pc = "call"
       /\ ~dec.empty
       /\ dec.loaded.ok
       /\ ~out.raised
       /\ data' = dec.loaded.val
       /\ df' = out.df
       /\ json_pc' = "returned"
       /\ PagesOutcome
       /\ UNCHANGED <<raw_text, normalize, json_error, nestVars, listVars, recVars, pageVars>>

(***************************************************************************)
(* Inputs of the nesting engine.                                           *)
(***************************************************************************)
Keys == { DotJoin(p) : p \in (SeqsUpTo({<<s>> : s \in Segs}, MaxDepth) \ {<<>>}) }

FlatRecords ==
    { r \in SeqsUpTo(Keys \X {Scalar(s) : s \in Scalars}, MaxKeys) :
        \A i, j \in 1..Len(r) : i # j => r[i][1] # r[j][1] }

InitNest ==
    /\ flat \in FlatRecords
    /\ nest_pc = "call"
    /\ nested = None
    /\ nested_pages = None
    /\ reflat = None
    /\ ListIdle /\ JsonIdle /\ RecIdle /\ PageIdle

\* records = [_nest_flat_record(r) ...] for one row r, returning normally
NestReturn ==
    /\ nest_pc = "call"
    /\ ~_nest_flat_record(flat).raised
    /\ nested' = Dict(_nest_flat_record(flat).nested)
    /\ nested_pages' = Dict(_nest_flat_record_pages(flat).nested)
    /\ nest_pc' = "returned"
    /\ UNCHANGED <<flat, reflat, listVars, jsonVars, recVars, pageVars>>

\* the same call raising ValueError
NestRaise ==
    /\ nest_pc = "call"
    /\ _nest_flat_record(flat).raised
    /\ nested_pages' = Dict(_nest_flat_record_pages(flat).nested)
    /\ nest_pc' = "raised"
    /\ UNCHANGED <<flat, nested, reflat, listVars, jsonVars, recVars, pageVars>>

\* pd.json_normalize([nested]) of the returned record
NestNormalize ==
    /\ nest_pc = "returned"
    /\ reflat' = Dict(NormaliseJsonOrdered(nested.d))
    /\ nest_pc' = "normalized"
    /\ UNCHANGED <<flat, nested, nested_pages, listVars, jsonVars, recVars, pageVars>>

(***************************************************************************)
(* apps/csv_to_json.py _records_from_df.  The DataFrame is what read_csv   *)
(* made of the CSV: distinct column names, NaN for an empty cell.          *)
(***************************************************************************)
\* df.dropna(): the rows with an empty cell are gone
DropNa(frame) ==
    Frame(frame.columns,
          SelectSeq(frame.rows, LAMBDA row : \A c \in 1..Len(row) : row[c] # NaN))

\* df.fillna("")
FillNa(frame) ==
    Frame(frame.columns,
          [r \in 1..Len(frame.rows) |->
             [c \in 1..Len(frame.columns) |->
                IF frame.rows[r][c] = NaN THEN Scalar("") ELSE frame.rows[r][c]]])

\* df_clean.to_dict(orient="records"): one dict per row, keys in column order
ToDictRecords(frame) ==
    [r \in 1..Len(frame.rows) |->
        [c \in 1..Len(frame.columns) |-> <<frame.columns[c], frame.rows[r][c]>>]]

\* lines 70-71
CleanRecords(frame) == ToDictRecords(FillNa(frame))

\* lines 72-74: [raised |-> FALSE, records |-> list] or the ValueError of
\* the first row _nest_flat_record refuses
_records_from_df(frame, observe) ==
    LET recs == CleanRecords(frame)
    IN IF observe
       THEN IF \E r \in 1..Len(recs) : _nest_flat_record(recs[r]).raised
            THEN Raised("ValueError: Conflict detected")
            ELSE [raised |-> FALSE,
                  records |-> [r \in 1..Len(recs) |-> Dict(_nest_flat_record(recs[r]).nested)]]
       ELSE [raised |-> FALSE, records |-> [r \in 1..Len(recs) |-> Dict(recs[r])]]

GridColumns == {<<"a">>, <<"b">>, <<"a", ".", "b">>}
GridCells == {Scalar("x"), Scalar("y"), NaN}
GridHeaders ==
    { h \in SeqsUpTo(GridColumns, Cardinality(GridColumns)) :
        /\ Len(h) > 0
        /\ \A i, j \in 1..Len(h) : i # j => h[i] # h[j] }
GridRows(h) == SeqsUpTo([1..Len(h) -> GridCells], MaxRows)

InitRecords ==
    /\ \E h \in GridHeaders : \E rows \in GridRows(h) : csv_df = Frame(h, rows)
    /\ observe_nested \in BOOLEAN
    /\ records = None
    /\ rec_pc = "call"
    /\ NestIdle /\ ListIdle /\ JsonIdle /\ PageIdle

RecordsReturn ==
    LET out == _records_from_df(csv_df, observe_nested)
    IN /\ rec_pc = "call"
       /\ ~out.raised
       /\ records' = out.records
       /\ rec_pc' = "returned"
       /\ UNCHANGED <<csv_df, observe_nested, nestVars, listVars, jsonVars, pageVars>>

RecordsRaise ==
    LET out == _records_from_df(csv_df, observe_nested)
    IN /\ rec_pc = "call"
       /\ out.raised
       /\ rec_pc' = "raised"
       /\ UNCHANGED <<csv_df, observe_nested, records, nestVars, listVars, jsonVars, pageVars>>

(***************************************************************************)
(* The pages of streamlit_app.py: apps/csv_to_json.py and                  *)
(* apps/json_to_df.py with their st.session_state keys.  A click runs the  *)
(* button's callback, then Streamlit runs the script of the selected page  *)
(* again; a navigation only runs the script of the page it selects.        *)
(***************************************************************************)
MaxPageRows == 1   \* data rows of a CSV the page converts
MaxPageText == 7   \* characters of a JSON text the page converts

PageIds == {"home", "csv_to_json", "json_to_df"}

\* str(e): pandas' json_normalize raises a bare NotImplementedError
StrOfError(e) ==
    CASE e = "NotImplementedError" -> ""
      [] e = "ValueError: No JSON provided" -> "No JSON provided"
      [] e = "JSONDecodeError" -> "Expecting value: line 1 column 1 (char 0)"
      [] e = "ValueError: All arrays must be of the same length" ->
                "All arrays must be of the same length"
      [] e = "ValueError: DataFrame constructor not properly called!" ->
                "DataFrame constructor not properly called!"
      [] e = "ValueError: Conflict detected" -> "Conflict detected: key exists as a nested object"
      [] e = "EmptyDataError" -> "No columns to parse from file"
      [] e = "ParserError" -> "Error tokenizing data. C error: Expected 1 fields in line 3, saw 2"

\* json.dumps(x, indent=4); the cells of a CSV are str
Spaces(n) == [i \in 1..n |-> " "]
RECURSIVE DumpsIndent(_, _)
RECURSIVE DumpMembersIndent(_, _)
RECURSIVE DumpElementsIndent(_, _)
DumpsIndent(x, level) ==
    IF IsDict(x)
    THEN IF x.d = <<>> THEN <<"{", "}">>
         ELSE <<"{", "\n">> \o DumpMembersIndent(x.d, level + 1)
              \o <<"\n">> \o Spaces(4 * level) \o <<"}">>
    ELSE IF IsList(x)
    THEN IF x.l = <<>> THEN <<"[", "]">>
         ELSE <<"[", "\n">> \o DumpElementsIndent(x.l, level + 1)
              \o <<"\n">> \o Spaces(4 * level) \o <<"]">>
    ELSE IF x.v = "" THEN <<"\"", "\"">> ELSE <<"\"", x.v, "\"">>
DumpMembersIndent(kvs, level) ==
    Spaces(4 * level) \o <<"\"">> \o kvs[1][1] \o <<"\"", ":", " ">>
    \o DumpsIndent(kvs[1][2], level)
    \o (IF Len(kvs) = 1 THEN <<>> ELSE <<",", "\n">> \o DumpMembersIndent(Tail(kvs), level))
DumpElementsIndent(l, level) ==
    Spaces(4 * level) \o DumpsIndent(l[1], level)
    \o (IF Len(l) = 1 THEN <<>> ELSE <<",", "\n">> \o DumpElementsIndent(Tail(l), level))

\* What the user gives the CSV page: blank text (or an empty file), text
\* pd.read_csv cannot tokenize, or the text of a grid.
PageHeaders == { <<<<"a">>>>, <<<<"a">>, <<"a", ".", "b">>>>, <<<<"a", ".", "b">>, <<"a">>>> }
PageCells == {Scalar("x")}
PageGrids ==
    UNION { { Frame(h, rows) : rows \in SeqsUpTo([1..Len(h) -> PageCells], MaxPageRows) }
            : h \in PageHeaders }
CsvSources ==
    {[kind |-> "blank"], [kind |-> "ragged"]} \cup { [kind |-> "csv", grid |-> g] : g \in PageGrids }

\* pd.read_csv(...)
ReadCsv(src) ==
    IF src.kind = "blank" THEN Raised("EmptyDataError")
    ELSE IF src.kind = "ragged" THEN Raised("ParserError")
    ELSE Returned(src.grid)

\* the body of the try of _convert_from_text / _convert_from_file up to json.dumps:
\* [raised |-> FALSE, text |-> the JSON text] or the exception
CsvToJson(src, observe) ==
    LET read == ReadCsv(src)
    IN IF read.raised THEN read
       ELSE LET recs == _records_from_df(read.df, observe)
            IN IF recs.raised THEN recs
               ELSE [raised |-> FALSE, text |-> DumpsIndent(List(recs.records), 0)]

\* A page's session values are [converted, output, error].  A callback maps
\* those it finds to those it leaves.
Session(converted, output, error) ==
    [converted |-> converted, output |-> output, error |-> error]

\* the variant below sets the flag before the conversion has succeeded
DoConvertFlagFirst(out, old) ==
    IF out.raised THEN Session(TRUE, old.output, StrOfError(out.error))
    ELSE Session(TRUE, out.df, "")

\* apps/csv_to_json.py lines 92-104
_convert_from_text(src, observe, old) ==
    LET out == CsvToJson(src, observe)
    IN IF src.kind = "blank" THEN Session(old.converted, old.output, "No CSV text provided")
       ELSE IF out.raised THEN Session(old.converted, old.output, StrOfError(out.error))
       ELSE Session(TRUE, out.text, "")

\* apps/csv_to_json.py lines 77-89; file_obj is None or an uploaded file
_convert_from_file(file_obj, observe, old) ==
    IF file_obj = None THEN Session(old.converted, old.output, "No file uploaded")
    ELSE LET out == CsvToJson(file_obj, observe)
         IN IF out.raised THEN Session(old.converted, old.output, StrOfError(out.error))
            ELSE Session(TRUE, out.text, "")

\* apps/json_to_df.py lines 68-75, out being what parse_json_to_df does at line 70
do_convert(out, old) ==
    IF out.raised THEN Session(old.converted, old.output, StrOfError(out.error))
    ELSE Session(TRUE, out.df, "")

\* whether the conversion of a callback fails
TextFails(src, observe) == src.kind = "blank" \/ CsvToJson(src, observe).raised
FileFails(file_obj, observe) == file_obj = None \/ CsvToJson(file_obj, observe).raised

\* what parse_json_to_df does with the json_input and normalize of the page
PageJsonTexts == { t \in JsonTexts : Len(t) <= MaxPageText }
ParseOutcomes == { parse_json_to_df(raw, norm) : raw \in PageJsonTexts, norm \in BOOLEAN }

\* st.session_state: key in st.session_state, st.session_state.get(key),
\* st.session_state.key = value
Has(ss, key) == key \in DOMAIN ss
SetKey(ss, key, value) == [k \in DOMAIN ss \cup {key} |-> IF k = key THEN value ELSE ss[k]]
\* if key not in st.session_state: st.session_state.key = default
Ensure(ss, key, default) == IF Has(ss, key) THEN ss ELSE SetKey(ss, key, default)

\* the session values of a page, and a session with the values a callback leaves
CsvSession(ss) == Session(ss.csv_converted, ss.csv_json_output, ss.csv_convert_error)
JsonSession(ss) == Session(ss.json_converted, ss.json_df, ss.json_convert_error)
WithCsv(ss, new) ==
    SetKey(SetKey(SetKey(ss, "csv_converted", new.converted),
                  "csv_json_output", new.output), "csv_convert_error", new.error)
WithJson(ss, new) ==
    SetKey(SetKey(SetKey(ss, "json_converted", new.converted),
                  "json_df", new.output), "json_convert_error", new.error)

\* apps/csv_to_json.py _ensure_state, lines 11-23 (the keys of the widgets left out)
EnsureCsv(ss) ==
    Ensure(Ensure(Ensure(ss, "csv_converted", FALSE), "csv_json_output", <<>>),
           "csv_convert_error", "")

\* apps/json_to_df.py _ensure_state, lines 55-65 (the keys of the widgets left out)
EnsureJson(ss) ==
    Ensure(Ensure(Ensure(ss, "json_converted", FALSE), "json_df", None),
           "json_convert_error", "")

\* st.session_state.get("last_rendered_page") != page_id
CameFromElsewhere(ss, page_id) ==
    IF Has(ss, "last_rendered_page") THEN ss.last_rendered_page # page_id ELSE TRUE

\* apps/csv_to_json.py render, lines 107-165: the session it leaves
render_csv(ss) ==
    LET ensured == EnsureCsv(ss)
        reset == IF CameFromElsewhere(ensured, "csv_to_json")
                 THEN SetKey(ensured, "csv_converted", FALSE) ELSE ensured
    IN SetKey(reset, "last_rendered_page", "csv_to_json")

\* apps/json_to_df.py render, lines 82-121: the session it leaves
render_json(ss) ==
    LET ensured == EnsureJson(ss)
        reset == IF CameFromElsewhere(ensured, "json_to_df")
                 THEN SetKey(ensured, "json_converted", FALSE) ELSE ensured
    IN SetKey(reset, "last_rendered_page", "json_to_df")

\* app start: nothing in st.session_state, the script of Home is about to run
InitPages ==
    /\ nav_page = "home"
    /\ session_state = <<>>
    /\ ui_pc = "rerun"
    /\ last_call = None
    /\ shown_before = None
    /\ NestIdle /\ ListIdle /\ JsonIdle /\ RecIdle

otherVars == <<nestVars, listVars, jsonVars, recVars>>

\* streamlit_app.py lines 7-9: home() touches no session state
RenderHome ==
    /\ ui_pc = "rerun"
    /\ nav_page = "home"
    /\ ui_pc' = "waiting"
    /\ UNCHANGED <<nav_page, session_state, last_call, shown_before, otherVars>>

\* the script of the CSV page runs
RenderCsv ==
    /\ ui_pc = "rerun"
    /\ nav_page = "csv_to_json"
    /\ session_state' = render_csv(session_state)
    /\ ui_pc' = "waiting"
    /\ UNCHANGED <<nav_page, last_call, shown_before, otherVars>>

\* the script of the JSON page runs
RenderJson ==
    /\ ui_pc = "rerun"
    /\ nav_page = "json_to_df"
    /\ session_state' = render_json(session_state)
    /\ ui_pc' = "waiting"
    /\ UNCHANGED <<nav_page, last_call, shown_before, otherVars>>

\* st.navigation: the user selects a page
Navigate ==
    /\ ui_pc = "waiting"
    /\ \E p \in PageIds : nav_page' = p
    /\ last_call' = [fn |-> "none", failed |-> FALSE]
    /\ shown_before' = nav_page
    /\ ui_pc' = "rerun"
    /\ UNCHANGED <<session_state, otherVars>>

\* "Convert CSV" of the text mode (line 133), shown while not converted
ClickConvertText ==
    /\ ui_pc = "waiting"
    /\ nav_page = "csv_to_json"
    /\ session_state.csv_converted = FALSE
    /\ \E src \in CsvSources, observe \in BOOLEAN :
          /\ session_state' = WithCsv(session_state,
                                 _convert_from_text(src, observe, CsvSession(session_state)))
          /\ last_call' = [fn |-> "_convert_from_text", failed |-> TextFails(src, observe)]
    /\ shown_before' = nav_page
    /\ ui_pc' = "rerun"
    /\ UNCHANGED <<nav_page, otherVars>>

\* "Convert CSV" of the file mode (line 129), shown while not converted
ClickConvertFile ==
    /\ ui_pc = "waiting"
    /\ nav_page = "csv_to_json"
    /\ session_state.csv_converted = FALSE
    /\ \E file_obj \in CsvSources \cup {None}, observe \in BOOLEAN :
          /\ session_state' = WithCsv(session_state,
                                 _convert_from_file(file_obj, observe, CsvSession(session_state)))
          /\ last_call' = [fn |-> "_convert_from_file", failed |-> FileFails(file_obj, observe)]
    /\ shown_before' = nav_page
    /\ ui_pc' = "rerun"
    /\ UNCHANGED <<nav_page, otherVars>>

\* "Back" of the CSV page (lines 159-162), shown while converted
ClickBackCsv ==
    /\ ui_pc = "waiting"
    /\ nav_page = "csv_to_json"
    /\ session_state.csv_converted = TRUE
    /\ session_state' = SetKey(session_state, "csv_converted", FALSE)
    /\ last_call' = [fn |-> "_go_back", failed |-> FALSE]
    /\ shown_before' = nav_page
    /\ ui_pc' = "rerun"
    /\ UNCHANGED <<nav_page, otherVars>>

\* "Convert JSON" (line 100), shown while not converted
ClickConvertJson ==
    /\ ui_pc = "waiting"
    /\ nav_page = "json_to_df"
    /\ session_state.json_converted = FALSE
    /\ \E out \in ParseOutcomes :
          /\ session_state' = WithJson(session_state,
                                 do_convert(out, JsonSession(session_state)))
          /\ last_call' = [fn |-> "do_convert", failed |-> out.raised]
    /\ shown_before' = nav_page
    /\ ui_pc' = "rerun"
    /\ UNCHANGED <<nav_page, otherVars>>

\* "Back" of the JSON page (lines 78-79, 118), shown while converted
ClickBackJson ==
    /\ ui_pc = "waiting"
    /\ nav_page = "json_to_df"
    /\ session_state.json_converted = TRUE
    /\ session_state' = SetKey(session_state, "json_converted", FALSE)
    /\ last_call' = [fn |-> "go_back", failed |-> FALSE]
    /\ shown_before' = nav_page
    /\ ui_pc' = "rerun"
    /\ UNCHANGED <<nav_page, otherVars>>

NextPages ==
    \/ RenderHome \/ RenderCsv \/ RenderJson \/ Navigate
    \/ ClickConvertText \/ ClickConvertFile \/ ClickBackCsv
    \/ ClickConvertJson \/ ClickBackJson

SpecPages == InitPages /\ [][NextPages]_vars

NextNest == NestReturn \/ NestRaise \/ NestNormalize

SpecNest == InitNest /\ [][NextNest]_vars

NextList == ConvertListEmpty \/ ConvertList \/ ConvertListAgain

SpecList == InitList /\ [][NextList]_vars

NextJson == ParseRaiseEmpty \/ ParseRaiseDecode \/ ParseRaiseFrame \/ ParseReturn

SpecJson == InitJson /\ [][NextJson]_vars

NextRecords == RecordsReturn \/ RecordsRaise

SpecRecords == InitRecords /\ [][NextRecords]_vars

Init == InitNest \/ InitList \/ InitJson \/ InitRecords \/ InitPages

Next == NextNest \/ NextList \/ NextJson \/ NextRecords \/ NextPages

Spec == Init /\ [][Next]_vars

(***************************************************************************)
(* Properties of the nesting engine.                                       *)
(***************************************************************************)
IsStrictPrefix(p, q) == Len(p) < Len(q) /\ SubSeq(q, 1, Len(p)) = p

\* the record holds a plain key k and a dotted key whose first segment is k
PlainMeetsDotted(kvs) ==
    \E i, j \in 1..Len(kvs) :
        /\ ~HasDot(kvs[i][1])
        /\ HasDot(kvs[j][1])
        /\ StrSplit(kvs[j][1])[1] = kvs[i][1]

\* no key's segment path is a strict prefix of another key's path
NonColliding(kvs) ==
    \A i, j \in 1..Len(kvs) : ~IsStrictPrefix(StrSplit(kvs[i][1]), StrSplit(kvs[j][1]))

\* walking dict cur along parts reaches exactly value
RECURSIVE Reaches(_, _, _)
Reaches(cur, parts, value) ==
    /\ DictHas(cur, parts[1])
    /\ IF Len(parts) = 1 THEN DictGet(cur, parts[1]) = value
       ELSE /\ IsDict(DictGet(cur, parts[1]))
            /\ Reaches(DictGet(cur, parts[1]).d, Tail(parts), value)

\* C1: a flat record with a plain key k and a dotted key whose first segment
\* is k, in either key order, makes _nest_flat_record raise the conflict error.
C1_ConflictRaises ==
    (nest_pc # "call" /\ PlainMeetsDotted(flat)) => nest_pc = "raised"

\* C2: whenever _nest_flat_record returns normally (either variant), walking
\* the result along each input key's segments reaches exactly that key's value.
C2_NoValueLost ==
    /\ nest_pc \in {"returned", "normalized"} =>
          \A i \in 1..Len(flat) : Reaches(nested.d, StrSplit(flat[i][1]), flat[i][2])
    /\ nest_pc \in {"returned", "raised", "normalized"} =>
          \A i \in 1..Len(flat) : Reaches(nested_pages.d, StrSplit(flat[i][1]), flat[i][2])

\* C3: for a flat record with pairwise non-colliding keys _nest_flat_record
\* returns, and flattening its result gives back the same keys with the same values.
C3_RoundTrip ==
    NonColliding(flat) =>
        /\ nest_pc # "raised"
        /\ nest_pc = "normalized" => AsFunction(reflat.d) = AsFunction(flat)

\* a non-colliding record with two dotted keys under one parent went round
C3_Witness ==
    /\ nest_pc = "normalized"
    /\ NonColliding(flat)
    /\ \E i, j \in 1..Len(flat) :
          /\ i # j
          /\ HasDot(flat[i][1]) /\ HasDot(flat[j][1])
          /\ StrSplit(flat[i][1])[1] = StrSplit(flat[j][1])[1]

(***************************************************************************)
(* Properties of convert_list.  The expected items are defined from the    *)
(* positions of the text, not by the scan convert_list makes.              *)
(***************************************************************************)
Separators == {",", "\t", "\r", "\n"}
Whitespace == {" ", "\t", "\n", "\r"}

\* the elements of seq at the indices K, in index order
Pick(seq, K) ==
    [r \in 1..Cardinality(K) |->
        seq[CHOOSE k \in K : Cardinality({h \in K : h < k}) = r - 1]]

\* the maximal separator-free stretches <<i, j>> of t that are not all whitespace
Fields(t) ==
    { f \in (1..Len(t)) \X (1..Len(t)) :
        /\ f[1] <= f[2]
        /\ \A h \in f[1]..f[2] : t[h] \notin Separators
        /\ (f[1] = 1 \/ t[f[1] - 1] \in Separators)
        /\ (f[2] = Len(t) \/ t[f[2] + 1] \in Separators)
        /\ \E h \in f[1]..f[2] : t[h] \notin Whitespace }

Trimmed(t, f) ==
    LET core == { h \in f[1]..f[2] : t[h] \notin Whitespace }
        lo == CHOOSE h \in core : \A g \in core : h <= g
        hi == CHOOSE h \in core : \A g \in core : h >= g
    IN SubSeq(t, lo, hi)

ExpectedTokens(t) ==
    LET F == Fields(t)
    IN [r \in 1..Cardinality(F) |->
          Trimmed(t, CHOOSE f \in F : Cardinality({g \in F : g[1] < f[1]}) = r - 1)]

FirstOccurrences(toks) ==
    Pick(toks, { k \in 1..Len(toks) : \A h \in 1..(k - 1) : toks[h] # toks[k] })

ExpectedItems(t, dupes) ==
    IF dupes THEN FirstOccurrences(ExpectedTokens(t)) ELSE ExpectedTokens(t)

NoTokens(t) == \A i \in 1..Len(t) : t[i] \in Separators \cup Whitespace

WrapperPair(w) ==
    IF w = "paren" THEN <<"(", ")">>
    ELSE IF w = "bracket" THEN <<"[", "]">>
    ELSE IF w = "brace" THEN <<"{", "}">>
    ELSE <<>>

\* C4, as claimed: every text without tokens, the empty string included, gives
\* the bare wrapper for every wrapMode other than none.
C4_EmptyCoreWrapped ==
    (list_pc \in {"returned", "returned_early"} /\ NoTokens(text) /\ wrapper # "none")
        => result = WrapperPair(wrapper)

\* C4, amended: a non-empty text without tokens gives the bare wrapper for
\* every wrapMode other than none; the empty string gives the empty string
\* for every wrapMode.
C4_Amended ==
    /\ (list_pc = "returned" /\ NoTokens(text) /\ wrapper # "none")
          => (text # <<>> /\ result = WrapperPair(wrapper))
    /\ list_pc \in {"returned", "returned_early"} /\ text = <<>> => result = <<>>

\* separators and blanks only, wrapped in braces
C4_Witness ==
    /\ list_pc = "returned"
    /\ text # <<>> /\ NoTokens(text)
    /\ \E i \in 1..Len(text) : text[i] = " "
    /\ wrapper = "brace"
    /\ result = <<"{", "}">>

\* C5: the items are the trimmed, non-empty pieces between separator runs, in
\* order, and with removeDupes only the first occurrence of each.
C5_TokenSequence ==
    /\ list_pc = "returned" => items = ExpectedItems(text, remove_dupes)
    /\ list_pc = "returned_early" => ExpectedItems(text, remove_dupes) = <<>>

\* three tokens, the third repeating the first, deduplicated to two
C5_Witness ==
    /\ list_pc = "returned"
    /\ remove_dupes
    /\ Len(ExpectedTokens(text)) = 3
    /\ Len(items) = 2
    /\ items[1] # items[2]

\* out is item it quoted in mode q: between quote characters, every embedded
\* quote character preceded by its escape character
QuotedAs(it, out, q) ==
    IF q = "none" THEN out = it
    ELSE LET qc == IF q = "single" THEN "'" ELSE "\""
             ec == IF q = "single" THEN "'" ELSE "\\"
             nq(i) == Cardinality({ h \in 1..i : it[h] = qc })
             pos(i) == 1 + i + nq(i)
         IN /\ Len(out) = Len(it) + 2 + nq(Len(it))
            /\ out[1] = qc
            /\ out[Len(out)] = qc
            /\ \A i \in 1..Len(it) :
                  /\ out[pos(i)] = it[i]
                  /\ it[i] = qc => out[pos(i) - 1] = ec

RECURSIVE Offset(_, _)
Offset(parts, k) == IF k = 1 THEN 0 ELSE Offset(parts, k - 1) + Len(parts[k - 1]) + 2

\* whole is parts joined with ", "
JoinedAs(parts, whole) ==
    IF Len(parts) = 0 THEN whole = <<>>
    ELSE /\ Len(whole) = Offset(parts, Len(parts)) + Len(parts[Len(parts)])
         /\ \A k \in 1..Len(parts) :
               /\ SubSeq(whole, Offset(parts, k) + 1, Offset(parts, k) + Len(parts[k])) = parts[k]
               /\ k > 1 => /\ whole[Offset(parts, k) - 1] = ","
                           /\ whole[Offset(parts, k)] = " "

\* C6: each item is emitted quoted as its quoteMode says, and the emitted
\* items are joined with ", ".
C6_QuoteAndJoin ==
    list_pc = "returned" =>
        /\ Len(quoted) = Len(items)
        /\ \A k \in 1..Len(items) : QuotedAs(items[k], quoted[k], quote)
        /\ JoinedAs(quoted, joined)

\* two items, one holding a double quote, quoted in double mode
C6_Witness ==
    /\ list_pc = "returned"
    /\ quote = "double"
    /\ Len(items) = 2
    /\ \E k \in 1..2 : \E i \in 1..Len(items[k]) : items[k][i] = "\""

(***************************************************************************)
(* Properties of parse_json_to_df.                                         *)
(***************************************************************************)
IsBlank(t) == \A i \in 1..Len(t) : t[i] \in Whitespace

\* the cell of row r under the column named c; None without such a column
CellAt(frame, r, c) ==
    IF \E k \in 1..Len(frame.columns) : frame.columns[k] = c
    THEN frame.rows[r][CHOOSE k \in 1..Len(frame.columns) : frame.columns[k] = c]
    ELSE None

\* a dict whose values are all arrays, of one length
IsColumnar(x) ==
    /\ IsDict(x)
    /\ x.d # <<>>
    /\ \A i \in 1..Len(x.d) : IsList(x.d[i][2])
    /\ \A i, j \in 1..Len(x.d) : Len(x.d[i][2].l) = Len(x.d[j][2].l)

\* a dict with a value that is no array
IsSingleRecord(x) == IsDict(x) /\ \E i \in 1..Len(x.d) : ~IsList(x.d[i][2])

\* the leaves of a dict with their key paths
RECURSIVE LeafPaths(_)
LeafPaths(kvs) ==
    UNION { IF IsDict(kvs[i][2])
            THEN { <<(<<kvs[i][1]>> \o pv[1]), pv[2]>> : pv \in LeafPaths(kvs[i][2].d) }
            ELSE { <<(<<kvs[i][1]>>), kvs[i][2]>> }
          : i \in 1..Len(kvs) }
NestedLeaves(kvs) == { pv \in LeafPaths(kvs) : Len(pv[1]) > 1 }

\* C7: an empty or whitespace-only text makes parse_json_to_df (either copy,
\* either normalize) raise ValueError('No JSON provided') before json.loads,
\* and no DataFrame is returned.
C7_EmptyInput ==
    (json_pc # "call" /\ IsBlank(raw_text)) =>
        /\ json_pc = "raised"
        /\ json_error = "ValueError: No JSON provided"
        /\ data = None /\ df = None
        /\ json_error_pages = "ValueError: No JSON provided"
        /\ df_pages = None

\* a text of two whitespace characters was refused
C7_Witness ==
    /\ json_pc = "raised"
    /\ Len(raw_text) = 2
    /\ IsBlank(raw_text)
    /\ json_error = "ValueError: No JSON provided"

\* C8: columnar JSON with normalize=true gives one column per key and one row
\* per array position, row i holding the i-th element of each array.
C8_ColumnarRows ==
    (json_pc \in {"returned", "raised"} /\ normalize /\ data # None /\ IsColumnar(data)) =>
        /\ json_pc = "returned"
        /\ df.columns = [c \in 1..Len(data.d) |-> data.d[c][1]]
        /\ Len(df.rows) = Len(data.d[1][2].l)
        /\ \A r \in 1..Len(df.rows) : \A c \in 1..Len(data.d) :
              df.rows[r][c] = data.d[c][2].l[r]

HeaderConflict(h) ==
    \E i, j \in 1..Len(h) :
        i < j /\ HasDot(h[i]) /\ ~HasDot(h[j]) /\ StrSplit(h[i])[1] = h[j]

\* C10: when no nesting conflict is raised _records_from_df returns one record
\* per grid row, in row order, every value of record i being the cell of row i
\* in the column of its path; a grid without data rows gives the empty list
\* and no error.
C10_OneRecordPerRow ==
    /\ rec_pc = "returned" =>
          /\ Len(records) = Len(csv_df.rows)
          /\ \A i \in 1..Len(records) :
                /\ LeafPaths(records[i].d) # {}
                /\ \A pv \in LeafPaths(records[i].d) :
                      LET cell == CellAt(csv_df, i, DotJoin(pv[1]))
                      IN pv[2] = IF cell = NaN THEN Scalar("") ELSE cell
    /\ (rec_pc # "call" /\ csv_df.rows = <<>>) => (rec_pc = "returned" /\ records = <<>>)
    /\ rec_pc = "raised" => (observe_nested /\ HeaderConflict(csv_df.columns))

\* two different rows, the first with an empty cell, nested into two records
C10_Witness ==
    /\ rec_pc = "returned"
    /\ observe_nested
    /\ Len(csv_df.rows) = 2
    /\ csv_df.rows[1] # csv_df.rows[2]
    /\ \E c \in 1..Len(csv_df.columns) : HasDot(csv_df.columns[c]) /\ csv_df.rows[1][c] = NaN
    /\ Len(records) = 2

\* C14: the two copies of parse_json_to_df return the same grid or the same
\* error for every input text and both values of normalize, the empty
\* object {} included.
C14_CopiesAgree ==
    json_pc \in {"returned", "raised"} =>
        /\ df = df_pages
        /\ json_error = json_error_pages

\* C14 as the code has it: the copies agree on every input but the empty
\* object with normalize false, which apps/ takes for a single record (one
\* row, no column) and pages/ for columnar data (no row, no column).
C14_Amended ==
    json_pc \in {"returned", "raised"} =>
        IF data = Dict(EmptyDict) /\ ~normalize
        THEN /\ json_pc = "returned"
             /\ df = Frame(<<>>, << <<>> >>)
             /\ df_pages = Frame(<<>>, <<>>)
        ELSE /\ df = df_pages
             /\ json_error = json_error_pages

\* the empty object was converted without normalize
C14_Witness ==
    /\ json_pc = "returned"
    /\ data = Dict(EmptyDict)
    /\ ~normalize

\* C15: with quote none and wrapper none convert_list is idempotent: applied
\* to its own output with the same options it returns that output unchanged.
C15_Idempotent ==
    (reapplied # None /\ quote = "none" /\ wrapper = "none") => reapplied.s = result

\* a list of three items, one a duplicate, was converted twice
C15_Witness ==
    /\ reapplied # None
    /\ list_pc = "returned"
    /\ quote = "none" /\ wrapper = "none"
    /\ remove_dupes
    /\ Len(items) = 2
    /\ Len(StripItems(ReSplit(text))) = 3

(***************************************************************************)
(* Properties of the pages.                                                *)
(***************************************************************************)
\* the step is a click whose callback fn ran and whose conversion failed
FailedCall(fn) ==
    /\ ui_pc = "waiting" /\ ui_pc' = "rerun"
    /\ last_call'.fn = fn
    /\ last_call'.failed

FailedCsvCall == FailedCall("_convert_from_text") \/ FailedCall("_convert_from_file")

\* C11: a callback (_convert_from_text, _convert_from_file, do_convert) whose
\* conversion fails leaves the page's converted flag and stored output as
\* they were and sets the page's error message to a non-empty text.
C11_FailedConversion ==
    [][ /\ FailedCsvCall =>
            /\ session_state'.csv_converted = session_state.csv_converted
            /\ session_state'.csv_json_output = session_state.csv_json_output
            /\ session_state'.csv_convert_error # ""
        /\ FailedCall("do_convert") =>
            /\ session_state'.json_converted = session_state.json_converted
            /\ session_state'.json_df = session_state.json_df
            /\ session_state'.json_convert_error # ""
      ]_vars

\* the script of a page has just run after the user came from another page
ArrivedAt(page_id) ==
    /\ ui_pc = "waiting"
    /\ nav_page = page_id
    /\ shown_before \in PageIds \ {page_id}

\* C12: whenever the CSV page or the JSON page is rendered directly after the
\* user was on another page (Home included), its converted flag is False.
C12_ResetOnArrival ==
    /\ ArrivedAt("csv_to_json") => session_state.csv_converted = FALSE
    /\ ArrivedAt("json_to_df") => session_state.json_converted = FALSE

\* C13: in every reachable state a page whose converted flag is True has an
\* empty error message and the stored output of a successful conversion
\* (csv_json_output a non-empty JSON text, json_df a DataFrame, not None).
C13_ConvertedHasOutput ==
    /\ (Has(session_state, "csv_converted") /\ session_state.csv_converted = TRUE) =>
          /\ session_state.csv_convert_error = ""
          /\ session_state.csv_json_output # <<>>
          /\ \E src \in CsvSources, observe \in BOOLEAN :
                /\ ~CsvToJson(src, observe).raised
                /\ session_state.csv_json_output = CsvToJson(src, observe).text
    /\ (Has(session_state, "json_converted") /\ session_state.json_converted = TRUE) =>
          /\ session_state.json_convert_error = ""
          /\ session_state.json_df # None
          /\ \E out \in ParseOutcomes : ~out.raised /\ session_state.json_df = out.df

\* both pages hold a result at once, the CSV page one with a record in it
C13_Witness ==
    /\ ui_pc = "waiting"
    /\ nav_page = "json_to_df"
    /\ Has(session_state, "csv_converted") /\ session_state.csv_converted = TRUE
    /\ Has(session_state, "json_converted") /\ session_state.json_converted = TRUE
    /\ Len(session_state.csv_json_output) > 2

====
